---------------------------- MODULE Spec2Model ----------------------------
(***************************************************************************)
(* Model of the stock/price synchronisation scripts seller.py (seller      *)
(* platform) and market.py (marketplace platform).                         *)
(*                                                                         *)
(* Strings whose content the code inspects (quantities, prices) are        *)
(* sequences of one-character strings; offer ids / feed codes are only     *)
(* compared for equality and are opaque strings.                           *)
(***************************************************************************)
EXTENDS Integers, Sequences, FiniteSets, TLC

VARIABLES
    program,        \* the function or entry point being executed
    pc,             \* its position
    error,          \* exception raised by the last step, "" when none
    \* --- reconciliation and sync runs
    watch_remnants, \* the feed: rows [code, count, price]
    offer_ids,      \* the working list of known offer ids (mutated in place)
    known_ids,      \* offer_ids as it was when first obtained (history)
    stocks,         \* list built by create_stocks
    prices,         \* list built by create_prices
    campaign,       \* campaign being synchronised (market.main)
    batches,        \* list(divide(...)) still to be submitted by the loop
    calls,          \* remote update calls issued so far, in order
    coroutines,     \* coroutine objects created and never awaited
    not_empty,      \* the non-zero view upload_stocks returns with stocks
    \* --- price_conversion
    price, result,
    \* --- divide
    lst, n, i, chunks,
    \* --- get_offer_ids
    pages, page, product_list, requests

syncVars   == <<watch_remnants, offer_ids, known_ids, stocks, prices,
                campaign, batches, calls, coroutines, not_empty>>
priceVars  == <<price, result>>
divideVars == <<lst, n, i, chunks>>
pageVars   == <<pages, page, product_list, requests>>
vars == <<program, pc, error, syncVars, priceVars, divideVars, pageVars>>

IdleSync ==
    /\ watch_remnants = <<>> /\ offer_ids = <<>> /\ known_ids = <<>>
    /\ stocks = <<>> /\ prices = <<>> /\ campaign = ""
    /\ batches = <<>> /\ calls = <<>> /\ coroutines = <<>>
    /\ not_empty = <<>>
IdlePrice  == price = <<>> /\ result = <<>>
IdleDivide == lst = <<>> /\ n = 1 /\ i = 0 /\ chunks = <<>>
IdlePages  == pages = <<>> /\ page = "" /\ product_list = <<>> /\ requests = <<>>

-----------------------------------------------------------------------------
(* Generic helpers *)

Range(s) == {s[k] : k \in DOMAIN s}

SeqsUpTo(S, m) == UNION {[1..k -> S] : k \in 0..m}

RECURSIVE Concat(_)
Concat(ss) == IF ss = <<>> THEN <<>> ELSE Head(ss) \o Concat(Tail(ss))

Digits == {"0", "1", "2", "3", "4", "5", "6", "7", "8", "9"}

DigitValue(c) ==
    CASE c = "0" -> 0 [] c = "1" -> 1 [] c = "2" -> 2 [] c = "3" -> 3
      [] c = "4" -> 4 [] c = "5" -> 5 [] c = "6" -> 6 [] c = "7" -> 7
      [] c = "8" -> 8 [] c = "9" -> 9

-----------------------------------------------------------------------------
(* seller.price_conversion: re.sub("[^0-9]", "", price.split(".")[0]) *)

\* str.split(sep): the parts between occurrences of sep; always at least
\* one part (the whole string when sep does not occur).
RECURSIVE split(_, _)
split(s, sep) ==
    IF \A k \in DOMAIN s : s[k] # sep THEN <<s>>
    ELSE LET at == CHOOSE k \in DOMAIN s :
                       s[k] = sep /\ \A j \in 1..(k - 1) : s[j] # sep
         IN  <<SubSeq(s, 1, at - 1)>> \o split(SubSeq(s, at + 1, Len(s)), sep)

\* re.sub("[^0-9]", "", s): delete every character that is not 0-9.
re_sub_non_digits(s) == SelectSeq(s, LAMBDA c : c \in Digits)

Returned(v) == [value |-> v, error |-> ""]
Raised(e)   == [value |-> <<>>, error |-> e]

\* Mutant: the digits are collected before the split, so the fraction stays.
price_conversion_nosplit(p) == Returned(re_sub_non_digits(p))

\* Mutant: an input without a period is rejected.
price_conversion_strict(p) ==
    IF \E k \in DOMAIN p : p[k] = "."
    THEN Returned(re_sub_non_digits(split(p, ".")[1]))
    ELSE Raised("ValueError")

price_conversion(p) == Returned(re_sub_non_digits(split(p, ".")[1]))

MaxPriceLen == 3
PriceAlphabet == {"5", "9", "0", "'", ".", "x"}
PriceStrings == SeqsUpTo(PriceAlphabet, MaxPriceLen)

InitPrice ==
    /\ program = "price_conversion" /\ pc = "call" /\ error = ""
    /\ price \in PriceStrings /\ result = <<>>
    /\ IdleSync /\ IdleDivide /\ IdlePages

PriceConversion ==
    /\ program = "price_conversion" /\ pc = "call"
    /\ result' = price_conversion(price).value
    /\ error' = price_conversion(price).error
    /\ pc' = "returned"
    /\ UNCHANGED <<program, price, syncVars, divideVars, pageVars>>

NextPrice == PriceConversion

SpecPrice == InitPrice /\ [][NextPrice]_vars

HasPeriod(s) == \E k \in DOMAIN s : s[k] = "."

\* C6 (as stated): price_conversion fails with a malformed-input error on
\* every input that contains no period.
C6_FailsWithoutPeriod ==
    (program = "price_conversion" /\ pc = "returned" /\ ~HasPeriod(price))
        => error # ""

\* C6 (amended): price_conversion returns a value for every input string;
\* for an input without a period the value is the digits of the whole
\* string, in their original order.
C6_ReturnsWithoutPeriod ==
    (program = "price_conversion" /\ pc = "returned")
        => /\ error = ""
           /\ ~HasPeriod(price) =>
                  result = SelectSeq(price, LAMBDA c : c \in Digits)

C6_Witness ==
    /\ program = "price_conversion" /\ pc = "returned" /\ error = ""
    /\ price = <<"5", "9", "x">> /\ result = <<"5", "9">>

\* C7: for an input containing a period the result is exactly the digit
\* characters, in order, of the part before the first period.
C7_DigitsBeforeFirstPeriod ==
    (program = "price_conversion" /\ pc = "returned" /\ HasPeriod(price))
        => /\ error = ""
           /\ \E k \in DOMAIN price :
               /\ price[k] = "."
               /\ \A j \in 1..(k - 1) : price[j] # "."
               /\ result = SelectSeq(SubSeq(price, 1, k - 1),
                                     LAMBDA c : c \in Digits)

C7_Witness ==
    /\ program = "price_conversion" /\ pc = "returned" /\ error = ""
    /\ price = <<"5", ".", "0">> /\ result = <<"5">>

-----------------------------------------------------------------------------
(* seller.divide: for i in range(0, len(lst), n): yield lst[i : i + n] *)

Min(a, b) == IF a < b THEN a ELSE b

\* Mutant: the slice stops one element early, lst[i : i + n - 1].
slice_short(l, a, b) == SubSeq(l, a + 1, Min(b - 1, Len(l)))

\* Python's l[a:b] for 0 <= a <= b: the elements at 0-based a .. b-1,
\* cut at the end of the list.
slice(l, a, b) == SubSeq(l, a + 1, Min(b, Len(l)))

\* The list of all chunks, list(divide(l, m)), as the callers build it.
RECURSIVE divide_from(_, _, _)
divide_from(l, m, at) ==
    IF at >= Len(l) THEN <<>>
    ELSE <<slice(l, at, at + m)>> \o divide_from(l, m, at + m)

\* A batcher that would hand over the whole list as one batch.
divide_whole(l, m) == IF l = <<>> THEN <<>> ELSE <<l>>

divide(l, m) == divide_from(l, m, 0)

MaxLst == 4
MaxChunk == 3
Elements == {"a", "b"}

InitDivide ==
    /\ program = "divide" /\ pc = "loop" /\ error = ""
    /\ lst \in SeqsUpTo(Elements, MaxLst) /\ n \in 1..MaxChunk
    /\ i = 0 /\ chunks = <<>>
    /\ IdleSync /\ IdlePrice /\ IdlePages

\* One iteration of the generator: the next value of range(0, len(lst), n)
\* exists and the slice is yielded.
DivideYield ==
    /\ program = "divide" /\ pc = "loop" /\ i < Len(lst)
    /\ chunks' = Append(chunks, slice(lst, i, i + n))
    /\ i' = i + n
    /\ UNCHANGED <<program, pc, error, lst, n, syncVars, priceVars, pageVars>>

\* The range is exhausted: the generator returns.
DivideReturn ==
    /\ program = "divide" /\ pc = "loop" /\ i >= Len(lst)
    /\ pc' = "returned"
    /\ UNCHANGED <<program, error, divideVars, syncVars, priceVars, pageVars>>

NextDivide == DivideYield \/ DivideReturn

SpecDivide == InitDivide /\ [][NextDivide]_vars

\* C9: for every list and every n > 0 the chunks yielded by divide,
\* concatenated in order, equal the list; every chunk has at most n
\* elements and only the last chunk may have fewer than n.
C9_DivideConcatAndSize ==
    (program = "divide" /\ pc = "returned")
        => /\ Concat(chunks) = lst
           /\ \A k \in DOMAIN chunks : Len(chunks[k]) <= n
           /\ \A k \in 1..(Len(chunks) - 1) : Len(chunks[k]) = n

C9_Witness ==
    /\ program = "divide" /\ pc = "returned"
    /\ Len(chunks) = 2 /\ n = 3 /\ Len(chunks[2]) = 1
    /\ Concat(chunks) = lst

-----------------------------------------------------------------------------
(* get_offer_ids (seller.py and market.py): cursor pagination.              *)
(*                                                                         *)
(* The remote listing is a sequence of pages.  A cursor is a natural       *)
(* number: 0 stands for the empty cursor ("" on the first request, "" or    *)
(* an absent token in a response, all falsy in Python), k > 0 is the token  *)
(* that makes the remote answer with page k.  Each response carries its     *)
(* items, the next cursor and (seller platform) the reported total.         *)

MaxPages == 3
MaxItems == 2
MaxRequests == 5

Sum(f) ==
    LET S[k \in 0..Len(f)] == IF k = 0 THEN 0 ELSE S[k - 1] + f[k]
    IN  S[Len(f)]

\* The pages of a listing whose page k holds counts[k] products, numbered
\* consecutively over the whole listing, and which reports `tot` as total.
Listing(counts, tot) ==
    [k \in 1..Len(counts) |->
        [items  |-> [j \in 1..counts[k] |->
                        [offer_id |-> Sum(SubSeq(counts, 1, k - 1)) + j]],
         cursor |-> IF k < Len(counts) THEN k + 1 ELSE 0,
         total  |-> tot]]

\* get_product_list(cursor, ...): the remote's answer; the empty cursor
\* asks for the first page.
get_product_list(cursor) == pages[IF cursor = 0 THEN 1 ELSE cursor]

\* seller.py: if total == len(product_list): break
seller_break(total, products) == total = Len(products)

\* Mutant: the loop leaves after the first response.
market_break_always(token) == TRUE

\* market.py: if not page: break
market_break(token) == token = 0

InitPages ==
    /\ program \in {"seller.get_offer_ids", "market.get_offer_ids"}
    /\ pc = "loop" /\ error = ""
    /\ \E counts \in SeqsUpTo(0..MaxItems, MaxPages) \ {<<>>} :
         \E tot \in 0..(MaxPages * MaxItems) :
            /\ program = "market.get_offer_ids" => tot = 0
            /\ pages = Listing(counts, tot)
    /\ page = 0 /\ product_list = <<>> /\ requests = <<>>
    /\ IdleSync /\ IdlePrice /\ IdleDivide

\* One iteration of the while loop of seller.get_offer_ids.
SellerFetch ==
    /\ program = "seller.get_offer_ids" /\ pc = "loop"
    /\ Len(requests) < MaxRequests
    /\ LET some_prod == get_product_list(page)
           extended  == product_list \o some_prod.items
       IN  /\ requests' = Append(requests, page)
           /\ product_list' = extended
           /\ page' = some_prod.cursor
           /\ pc' = IF seller_break(some_prod.total, extended)
                    THEN "collect" ELSE "loop"
    /\ UNCHANGED <<program, error, pages, syncVars, priceVars, divideVars>>

\* One iteration of the while loop of market.get_offer_ids.
MarketFetch ==
    /\ program = "market.get_offer_ids" /\ pc = "loop"
    /\ Len(requests) < MaxRequests
    /\ LET some_prod == get_product_list(page)
       IN  /\ requests' = Append(requests, page)
           /\ product_list' = product_list \o some_prod.items
           /\ page' = some_prod.cursor
           /\ pc' = IF market_break(some_prod.cursor)
                    THEN "collect" ELSE "loop"
    /\ UNCHANGED <<program, error, pages, syncVars, priceVars, divideVars>>

\* for product in product_list: offer_ids.append(<the product's id>)
CollectOfferIds ==
    /\ program \in {"seller.get_offer_ids", "market.get_offer_ids"}
    /\ pc = "collect"
    /\ offer_ids' = [k \in 1..Len(product_list) |-> product_list[k].offer_id]
    /\ pc' = "returned"
    /\ UNCHANGED <<program, error, pageVars, priceVars, divideVars,
                   watch_remnants, known_ids, stocks, prices, campaign,
                   batches, calls, coroutines, not_empty>>

NextPages == SellerFetch \/ MarketFetch \/ CollectOfferIds

SpecPages == InitPages /\ [][NextPages]_vars

IsPrefix(s, t) == Len(s) <= Len(t) /\ s = SubSeq(t, 1, Len(s))

\* The cursors a run passes when it asks for each page once, in order:
\* the empty cursor, then the cursor each response returned.
ExpectedRequests ==
    [k \in 1..Len(pages) |-> IF k = 1 THEN 0 ELSE pages[k - 1].cursor]

AllItemIds == Concat([k \in 1..Len(pages) |->
                 [j \in 1..Len(pages[k].items) |-> pages[k].items[j].offer_id]])

ItemsThrough(k) == Sum([j \in 1..k |-> Len(pages[j].items)])

EachPageOnce ==
    /\ IsPrefix(requests, ExpectedRequests)
    /\ pc = "loop" => Len(requests) < Len(pages)
    /\ pc = "returned" => /\ requests = ExpectedRequests
                          /\ offer_ids = AllItemIds

\* The reported total equals the number of products accumulated after the
\* last page and after no earlier page.
TotalReachedAtLastPage ==
    /\ pages[Len(pages)].total = ItemsThrough(Len(pages))
    /\ \A k \in 1..(Len(pages) - 1) : pages[k].total # ItemsThrough(k)

\* C10 (as stated): for pages whose cursors are non-empty except the last,
\* get_offer_ids (both variants) requests each page exactly once, passing
\* each returned cursor on, stops, and returns all item ids in page order.
C10_EachPageOnceBoth ==
    program \in {"seller.get_offer_ids", "market.get_offer_ids"}
        => EachPageOnce

\* C10 (amended): the market variant does so for every such page sequence;
\* the seller variant, which stops on the accumulated count reaching the
\* reported total and not on the cursor, does so when the reported total is
\* reached after the last page and after no earlier page.
C10_EachPageOnce ==
    /\ program = "market.get_offer_ids" => EachPageOnce
    /\ (program = "seller.get_offer_ids" /\ TotalReachedAtLastPage)
           => EachPageOnce

C10_Witness ==
    /\ program = "market.get_offer_ids" /\ pc = "returned"
    /\ Len(pages) = 3 /\ requests = <<0, 2, 3>>
    /\ offer_ids = <<1, 2, 3, 4>>

-----------------------------------------------------------------------------
(* create_stocks and create_prices (seller.py and market.py)               *)

\* Python's int(str): surrounding blanks are ignored, then an optional
\* sign and at least one decimal digit; anything else is a ValueError.
RECURSIVE strip(_)
strip(s) ==
    IF s # <<>> /\ Head(s) = " " THEN strip(Tail(s))
    ELSE IF s # <<>> /\ s[Len(s)] = " " THEN strip(SubSeq(s, 1, Len(s) - 1))
    ELSE s

RECURSIVE decimal(_)
decimal(ds) ==
    IF ds = <<>> THEN 0
    ELSE 10 * decimal(SubSeq(ds, 1, Len(ds) - 1)) + DigitValue(ds[Len(ds)])

int(s) ==
    LET t      == strip(s)
        signed == t # <<>> /\ Head(t) \in {"-", "+"}
        ds     == IF signed THEN Tail(t) ELSE t
    IN  IF ds # <<>> /\ \A k \in DOMAIN ds : ds[k] \in Digits
        THEN Returned(IF signed /\ Head(t) = "-" THEN 0 - decimal(ds)
                      ELSE decimal(ds))
        ELSE Raised("ValueError")

\* Mutant: the "1" sentinel is not special-cased.
normalise_count_no_unit(count) ==
    IF count = <<">", "1", "0">> THEN Returned(100) ELSE int(count)

\* The if / elif / else on the quantity string inside create_stocks.
normalise_count(count) ==
    IF count = <<">", "1", "0">> THEN Returned(100)
    ELSE IF count = <<"1">> THEN Returned(0)
    ELSE int(count)

\* Mutant: a matched id stays in the working list.
remove_nothing(ids, x) == ids

\* list.remove(x): deletes the first occurrence of x (x is in the list).
remove(ids, x) ==
    LET at == CHOOSE k \in DOMAIN ids :
                  ids[k] = x /\ \A j \in 1..(k - 1) : ids[j] # x
    IN  SubSeq(ids, 1, at - 1) \o SubSeq(ids, at + 1, Len(ids))

\* seller.create_stocks.  The result carries the returned list, the working
\* list as the call leaves it, and the exception when int() raised (the
\* ids matched before the bad row are already removed by then).
RECURSIVE seller_stocks_loop(_, _, _)
seller_stocks_loop(rows, ids, acc) ==
    IF rows = <<>>
    THEN [stocks    |-> acc \o [k \in 1..Len(ids) |->
                                   [offer_id |-> ids[k], stock |-> 0]],
          offer_ids |-> ids, error |-> ""]
    ELSE LET watch == Head(rows)
             stock == normalise_count(watch.count)
         IN  IF watch.code \in Range(ids)
             THEN IF stock.error # ""
                  THEN [stocks |-> <<>>, offer_ids |-> ids,
                        error |-> stock.error]
                  ELSE seller_stocks_loop(Tail(rows), remove(ids, watch.code),
                           Append(acc, [offer_id |-> watch.code,
                                        stock    |-> stock.value]))
             ELSE seller_stocks_loop(Tail(rows), ids, acc)

seller_create_stocks(rows, ids) == seller_stocks_loop(rows, ids, <<>>)

\* market.create_stocks: the same loop, another payload shape.
market_sku(sku, warehouse_id, count) ==
    [sku |-> sku, warehouseId |-> warehouse_id,
     items |-> <<[count |-> count, type |-> "FIT", updatedAt |-> "date"]>>]

RECURSIVE market_stocks_loop(_, _, _, _)
market_stocks_loop(rows, ids, warehouse_id, acc) ==
    IF rows = <<>>
    THEN [stocks    |-> acc \o [k \in 1..Len(ids) |->
                                   market_sku(ids[k], warehouse_id, 0)],
          offer_ids |-> ids, error |-> ""]
    ELSE LET watch == Head(rows)
             stock == normalise_count(watch.count)
         IN  IF watch.code \in Range(ids)
             THEN IF stock.error # ""
                  THEN [stocks |-> <<>>, offer_ids |-> ids,
                        error |-> stock.error]
                  ELSE market_stocks_loop(Tail(rows),
                           remove(ids, watch.code), warehouse_id,
                           Append(acc, market_sku(watch.code, warehouse_id,
                                                  stock.value)))
             ELSE market_stocks_loop(Tail(rows), ids, warehouse_id, acc)

market_create_stocks(rows, ids, warehouse_id) ==
    market_stocks_loop(rows, ids, warehouse_id, <<>>)

\* Mutant: every feed row gets a price entry, listed or not.
seller_create_prices_unfiltered(rows, ids) ==
    [prices    |-> [k \in 1..Len(rows) |->
                      [auto_action_enabled |-> "UNKNOWN",
                       currency_code |-> "RUB", offer_id |-> rows[k].code,
                       old_price |-> "0",
                       price |-> price_conversion(rows[k].price).value]],
     offer_ids |-> ids, error |-> ""]

\* seller.create_prices: one entry per feed row whose code is listed; the
\* list of ids is only read.
seller_create_prices(rows, ids) ==
    LET listed == SelectSeq(rows, LAMBDA watch : watch.code \in Range(ids))
    IN  [prices    |-> [k \in 1..Len(listed) |->
                          [auto_action_enabled |-> "UNKNOWN",
                           currency_code |-> "RUB",
                           offer_id |-> listed[k].code,
                           old_price |-> "0",
                           price |-> price_conversion(listed[k].price).value]],
         offer_ids |-> ids, error |-> ""]

\* market.create_prices: as above with int(price_conversion(...)), which
\* raises when no digit precedes the period.
market_create_prices(rows, ids) ==
    LET listed == SelectSeq(rows, LAMBDA watch : watch.code \in Range(ids))
        value(k) == int(price_conversion(listed[k].price).value)
    IN  IF \E k \in DOMAIN listed : value(k).error # ""
        THEN [prices |-> <<>>, offer_ids |-> ids, error |-> "ValueError"]
        ELSE [prices    |-> [k \in 1..Len(listed) |->
                               [id    |-> listed[k].code,
                                price |-> [value |-> value(k).value,
                                           currencyId |-> "RUR"]]],
              offer_ids |-> ids, error |-> ""]

MaxFeed == 2
MaxKnown == 3
OfferIds == {"A", "B", "C"}
FeedCodes == {"A", "B"}
Quantities ==
    {<<">", "1", "0">>, <<"1">>, <<"7">>, <<"1", "2">>, <<"-", "3">>, <<"x">>}
SamplePrices ==
    {<<"5", "'", "9", "9", "0", ".", "0", "0", " ", "x">>, <<"1", "0", "0">>,
     <<"x", ".">>}

StockRows == [code : FeedCodes, count : Quantities,
              price : {<<"1", "0", "0", ".", "0", "0">>}]
PriceRows == [code : FeedCodes, count : {<<"7">>}, price : SamplePrices]

StockPrograms == {"seller.create_stocks", "market.create_stocks"}
PricePrograms == {"seller.create_prices", "market.create_prices"}

InitReconcile ==
    /\ program \in StockPrograms \cup PricePrograms
    /\ pc = "call" /\ error = ""
    /\ watch_remnants \in SeqsUpTo(IF program \in StockPrograms
                                   THEN StockRows ELSE PriceRows, MaxFeed)
    /\ offer_ids \in SeqsUpTo(OfferIds, MaxKnown)
    /\ known_ids = offer_ids
    /\ stocks = <<>> /\ prices = <<>> /\ campaign = ""
    /\ batches = <<>> /\ calls = <<>> /\ coroutines = <<>>
    /\ not_empty = <<>>
    /\ IdlePrice /\ IdleDivide /\ IdlePages

reconcileFrame ==
    <<program, watch_remnants, known_ids, campaign, batches, calls, coroutines,
      not_empty,
      priceVars, divideVars, pageVars>>

SellerCreateStocks ==
    /\ program = "seller.create_stocks" /\ pc = "call"
    /\ LET r == seller_create_stocks(watch_remnants, offer_ids)
       IN  stocks' = r.stocks /\ offer_ids' = r.offer_ids /\ error' = r.error
    /\ pc' = "returned"
    /\ UNCHANGED <<prices, reconcileFrame>>

MarketCreateStocks ==
    /\ program = "market.create_stocks" /\ pc = "call"
    /\ LET r == market_create_stocks(watch_remnants, offer_ids, "warehouse")
       IN  stocks' = r.stocks /\ offer_ids' = r.offer_ids /\ error' = r.error
    /\ pc' = "returned"
    /\ UNCHANGED <<prices, reconcileFrame>>

SellerCreatePrices ==
    /\ program = "seller.create_prices" /\ pc = "call"
    /\ LET r == seller_create_prices(watch_remnants, offer_ids)
       IN  prices' = r.prices /\ offer_ids' = r.offer_ids /\ error' = r.error
    /\ pc' = "returned"
    /\ UNCHANGED <<stocks, reconcileFrame>>

MarketCreatePrices ==
    /\ program = "market.create_prices" /\ pc = "call"
    /\ LET r == market_create_prices(watch_remnants, offer_ids)
       IN  prices' = r.prices /\ offer_ids' = r.offer_ids /\ error' = r.error
    /\ pc' = "returned"
    /\ UNCHANGED <<stocks, reconcileFrame>>

NextReconcile ==
    \/ SellerCreateStocks \/ MarketCreateStocks
    \/ SellerCreatePrices \/ MarketCreatePrices

SpecReconcile == InitReconcile /\ [][NextReconcile]_vars

NoDuplicates(s) == \A a, b \in DOMAIN s : a # b => s[a] # s[b]

\* The offer id and the quantity a stock entry carries, in either payload.
StockId(e) == IF program = "seller.create_stocks" THEN e.offer_id ELSE e.sku
StockQuantity(e) ==
    IF program = "seller.create_stocks" THEN e.stock ELSE e.items[1].count

StocksReturned ==
    program \in StockPrograms /\ pc = "returned" /\ error = ""

\* C1: for a duplicate-free list K of known ids and any feed, the list
\* create_stocks returns holds each id of the original K exactly once and
\* no other id.
C1_StockIdsAreExactlyKnown ==
    (StocksReturned /\ NoDuplicates(known_ids))
        => /\ {StockId(stocks[k]) : k \in DOMAIN stocks} = Range(known_ids)
           /\ Len(stocks) = Len(known_ids)
           /\ \A a, b \in DOMAIN stocks :
                  a # b => StockId(stocks[a]) # StockId(stocks[b])

C1_Witness ==
    /\ StocksReturned
    /\ known_ids = <<"C", "A">>
    /\ Len(watch_remnants) = 2
    /\ watch_remnants[1].code = "A" /\ watch_remnants[2].code = "A"
    /\ Len(stocks) = 2 /\ StockId(stocks[1]) = "A" /\ StockId(stocks[2]) = "C"

\* The quantity the claim assigns to each sampled quantity string.
ExpectedQuantity(count) ==
    CASE count = <<">", "1", "0">> -> 100
      [] count = <<"1">>           -> 0
      [] count = <<"7">>           -> 7
      [] count = <<"1", "2">>      -> 12
      [] count = <<"-", "3">>      -> 0 - 3

RowsWithCode(id) == SelectSeq(watch_remnants, LAMBDA watch : watch.code = id)

\* C4: for every id of the original (duplicate-free) K, create_stocks
\* reports 0 when no feed row has that code and otherwise the normalised
\* quantity of the first feed row with that code: ">10" is 100, "1" is 0,
\* any other numeric string its integer value.
C4_QuantityOfFirstRowOrZero ==
    (StocksReturned /\ NoDuplicates(known_ids))
        => \A id \in Range(known_ids) :
              /\ \E k \in DOMAIN stocks : StockId(stocks[k]) = id
              /\ \A k \in DOMAIN stocks :
                    StockId(stocks[k]) = id
                        => StockQuantity(stocks[k]) =
                              IF RowsWithCode(id) = <<>> THEN 0
                              ELSE ExpectedQuantity(RowsWithCode(id)[1].count)

C4_Witness ==
    /\ StocksReturned
    /\ known_ids = <<"A", "B", "C">>
    /\ Len(watch_remnants) = 2
    /\ watch_remnants[1].code = "A" /\ watch_remnants[1].count = <<"1">>
    /\ watch_remnants[2].code = "A" /\ watch_remnants[2].count = <<"7">>
    /\ \E k \in DOMAIN stocks :
           StockId(stocks[k]) = "A" /\ StockQuantity(stocks[k]) = 0

\* C5: every entry create_stocks returns carries a non-negative quantity,
\* also for quantity strings with a leading minus sign.
C5_QuantitiesNonNegative ==
    StocksReturned
        => \A k \in DOMAIN stocks : StockQuantity(stocks[k]) >= 0

PricesReturned ==
    program \in PricePrograms /\ pc = "returned" /\ error = ""

PriceId(e) == IF program = "seller.create_prices" THEN e.offer_id ELSE e.id

\* C8: every entry create_prices returns has an offer id that is the code
\* of a feed row and a member of K; an id of K that no feed row references
\* does not appear; K is left as it was.
C8_PriceIdsInFeedAndKnown ==
    PricesReturned
        => /\ \A k \in DOMAIN prices :
                 /\ PriceId(prices[k]) \in Range(known_ids)
                 /\ \E r \in DOMAIN watch_remnants :
                        watch_remnants[r].code = PriceId(prices[k])
           /\ offer_ids = known_ids

C8_Witness ==
    /\ PricesReturned
    /\ known_ids = <<"B", "C">>
    /\ Len(watch_remnants) = 2
    /\ watch_remnants[1].code = "A" /\ watch_remnants[2].code = "B"
    /\ Len(prices) = 1 /\ PriceId(prices[1]) = "B"
    /\ offer_ids = <<"B", "C">>

-----------------------------------------------------------------------------
(* The sync runs: seller.main and market.main                               *)
(*                                                                         *)
(* Every remote operation (listing, feed download, update call) either     *)
(* answers or raises; the listing answers with the catalog's offer ids      *)
(* (unique within a catalog), the download with the vendor's feed.          *)

SellerStocksBatch == 100
SellerPricesBatch == 900
MarketStocksBatch == 2000
MarketPricesBatch == 500

RECURSIVE Orderings(_)
Orderings(S) ==
    IF S = {} THEN {<<>>}
    ELSE UNION {{<<x>> \o t : t \in Orderings(S \ {x})} : x \in S}

\* The ids of a catalog, each once, in any order.
Catalogs ==
    UNION {Orderings(S) : S \in {T \in SUBSET OfferIds :
                                       Cardinality(T) <= MaxKnown}}

\* What get_offer_ids can return.  The market variant walks the cursor chain
\* once and returns the catalog.  The seller variant loops until the count
\* matches the reported total and asks for the first page again after an
\* empty cursor, so its result may repeat ids.
Listings(prog) ==
    IF prog \in {"seller.main", "seller.upload_stocks"}
    THEN SeqsUpTo(OfferIds, MaxKnown) ELSE Catalogs

\* The size of the batches handed to update_stocks.
StocksLimit(prog) ==
    IF prog \in {"seller.main", "seller.upload_stocks"}
    THEN SellerStocksBatch ELSE MarketStocksBatch

\* A catalog too large for one stock batch, by Overflow entries: offer "A"
\* and further offers named by their number.
Overflow == 1
LargeCatalog(limit) ==
    [k \in 1..(limit + Overflow) |-> IF k = 1 THEN "A" ELSE ToString(k)]

\* What get_offer_ids returns to main and to upload_stocks.
RunListings(prog) == Listings(prog) \cup {LargeCatalog(StocksLimit(prog))}

RunQuantities == {<<"5">>, <<">", "1", "0">>}
RunPrice(code) ==
    IF code = "A" THEN <<"1", "0", "0", ".", "0", "0", " ", "x">>
    ELSE <<"2", "0", "0", ".", "0", "0", " ", "x">>
RunRows == {[code |-> c, count |-> q, price |-> RunPrice(c)] :
               c \in FeedCodes, q \in RunQuantities}
RunFeeds == SeqsUpTo(RunRows, MaxFeed)

\* market.main reads a warehouse id per campaign from the environment.
warehouse_of(c) == IF c = "FBS" THEN "WAREHOUSE_FBS" ELSE "WAREHOUSE_DBS"

Init ==
    /\ program \in {"seller.main", "market.main"}
    /\ pc = IF program = "seller.main" THEN "get_offer_ids"
            ELSE "download_stock"
    /\ error = ""
    /\ IdleSync /\ IdlePrice /\ IdleDivide /\ IdlePages

idle == <<priceVars, divideVars, pageVars>>

\* A handler that would log the error inside the loop and carry on.
Halt_continue(e) == error' = e /\ UNCHANGED pc

\* The except clauses of main: the error is printed and the run is over.
Halt(e) == pc' = "halted" /\ error' = e

\* offer_ids = get_offer_ids(...), in seller.main and (per campaign) in
\* market.main.
GetOfferIds ==
    /\ program \in {"seller.main", "market.main"} /\ pc = "get_offer_ids"
    /\ \/ /\ \E ids \in RunListings(program) :
                offer_ids' = ids /\ known_ids' = ids
          /\ pc' = IF program = "seller.main" THEN "download_stock"
                   ELSE "create_stocks"
          /\ UNCHANGED error
       \/ Halt("HTTPError") /\ UNCHANGED <<offer_ids, known_ids>>
    /\ UNCHANGED <<program, watch_remnants, stocks, prices, campaign, batches,
                   calls, coroutines, not_empty,
                   idle>>

\* watch_remnants = download_stock(): inside the try block in seller.main,
\* before it in market.main (where an exception ends the process).
DownloadStock ==
    /\ program \in {"seller.main", "market.main"} /\ pc = "download_stock"
    /\ \/ /\ watch_remnants' \in RunFeeds
          /\ pc' = IF program = "seller.main" THEN "create_stocks"
                   ELSE "get_offer_ids"
          /\ campaign' = IF program = "seller.main" THEN campaign ELSE "FBS"
          /\ UNCHANGED error
       \/ /\ IF program = "seller.main" THEN Halt("HTTPError")
             ELSE pc' = "crashed" /\ error' = "HTTPError"
          /\ UNCHANGED <<watch_remnants, campaign>>
    /\ UNCHANGED <<program, offer_ids, known_ids, stocks, prices, batches,
                   calls, coroutines, not_empty,
                   idle>>

\* stocks = create_stocks(watch_remnants, offer_ids[, warehouse_id]) and the
\* list(divide(stocks, n)) the for loop is about to walk.
CreateStocks ==
    /\ program \in {"seller.main", "market.main"} /\ pc = "create_stocks"
    /\ LET r == IF program = "seller.main"
                THEN seller_create_stocks(watch_remnants, offer_ids)
                ELSE market_create_stocks(watch_remnants, offer_ids,
                                          warehouse_of(campaign))
       IN  /\ offer_ids' = r.offer_ids
           /\ IF r.error # ""
              THEN Halt(r.error) /\ UNCHANGED <<stocks, batches>>
              ELSE /\ stocks' = r.stocks
                   /\ batches' = divide(r.stocks, StocksLimit(program))
                   /\ pc' = "update_stocks"
                   /\ UNCHANGED error
    /\ UNCHANGED <<program, watch_remnants, known_ids, prices, campaign, calls,
                   coroutines, not_empty,
                   idle>>

\* One iteration of: for some_stock in ...: update_stocks(some_stock, ...)
UpdateStocks ==
    /\ program \in {"seller.main", "market.main"} /\ pc = "update_stocks"
    /\ batches # <<>>
    /\ calls' = Append(calls, [op |-> "update_stocks", campaign |-> campaign,
                               payload |-> Head(batches)])
    /\ \/ batches' = Tail(batches) /\ UNCHANGED <<pc, error>>
       \/ Halt("HTTPError") /\ UNCHANGED batches
    /\ UNCHANGED <<program, watch_remnants, offer_ids, known_ids, stocks,
                   prices, campaign, coroutines, not_empty,
                   idle>>

\* seller.main after the stock loop: prices = create_prices(watch_remnants,
\* offer_ids), with offer_ids as create_stocks left it.
SellerCreatePricesInMain ==
    /\ program = "seller.main" /\ pc = "update_stocks" /\ batches = <<>>
    /\ LET r == seller_create_prices(watch_remnants, offer_ids)
       IN  /\ prices' = r.prices
           /\ offer_ids' = r.offer_ids
           /\ batches' = divide(r.prices, SellerPricesBatch)
    /\ pc' = "update_price"
    /\ UNCHANGED <<program, error, watch_remnants, known_ids, stocks, campaign,
                   calls, coroutines, not_empty,
                   idle>>

\* One iteration of: for some_price in ...: update_price(some_price, ...)
UpdatePrice ==
    /\ program = "seller.main" /\ pc = "update_price" /\ batches # <<>>
    /\ calls' = Append(calls, [op |-> "update_price", campaign |-> campaign,
                               payload |-> Head(batches)])
    /\ \/ batches' = Tail(batches) /\ UNCHANGED <<pc, error>>
       \/ Halt("HTTPError") /\ UNCHANGED batches
    /\ UNCHANGED <<program, watch_remnants, offer_ids, known_ids, stocks,
                   prices, campaign, coroutines, not_empty,
                   idle>>

\* seller.main leaves the price loop and returns.
SellerDone ==
    /\ program = "seller.main" /\ pc = "update_price" /\ batches = <<>>
    /\ pc' = "done"
    /\ UNCHANGED <<program, error, syncVars, idle>>

\* market.main after the stock loop: upload_prices(watch_remnants, campaign,
\* market_token).  upload_prices is declared "async def" and the call is
\* neither awaited nor scheduled: it builds a coroutine object and returns
\* at once, the body (get_offer_ids, create_prices, update_price) never runs.
\* The run goes on with the next campaign, or ends.
MarketUploadPrices ==
    /\ program = "market.main" /\ pc = "update_stocks" /\ batches = <<>>
    /\ coroutines' = Append(coroutines, [function |-> "upload_prices",
                                         campaign |-> campaign])
    /\ IF campaign = "FBS"
       THEN campaign' = "DBS" /\ pc' = "get_offer_ids"
       ELSE campaign' = campaign /\ pc' = "done"
    /\ UNCHANGED <<program, error, watch_remnants, offer_ids, known_ids,
                   stocks, prices, batches, calls, not_empty, idle>>

Next ==
    \/ GetOfferIds \/ DownloadStock \/ CreateStocks \/ UpdateStocks
    \/ SellerCreatePricesInMain \/ UpdatePrice \/ SellerDone
    \/ MarketUploadPrices

Spec == Init /\ [][Next]_vars

CallsOf(op, c) ==
    SelectSeq(calls, LAMBDA call : call.op = op /\ call.campaign = c)

Payloads(cs) == [k \in 1..Len(cs) |-> cs[k].payload]

\* C2: in a seller sync run without errors the price entries passed to
\* update_price cover every offer id that is in K and referenced by a feed
\* row, and no id of K that the feed does not reference.
C2_SellerPricesCoverFeedIds ==
    (program = "seller.main" /\ pc = "done" /\ error = "")
        => {e.offer_id : e \in Range(Concat(Payloads(CallsOf("update_price", ""))))}
             = {id \in Range(known_ids) :
                    \E r \in DOMAIN watch_remnants :
                        watch_remnants[r].code = id}

\* The campaign whose stock and price steps market.main has completed.
CampaignCompleted(c) ==
    /\ program = "market.main" /\ error = ""
    /\ \/ c = "FBS" /\ campaign = "DBS" /\ pc = "get_offer_ids"
       \/ c = "DBS" /\ campaign = "DBS" /\ pc = "done"

\* C3: in a market sync run without errors, for each campaign the price
\* pipeline is executed: after the campaign's stock batches, update_price
\* is called once per batch of the campaign's price list, in order.
C3_MarketPricesUploaded ==
    \A c \in {"FBS", "DBS"} :
        CampaignCompleted(c)
            => /\ Payloads(CallsOf("update_price", c))
                    = divide(market_create_prices(watch_remnants,
                                                  known_ids).prices,
                             MarketPricesBatch)
               /\ \A a, b \in DOMAIN calls :
                      (/\ calls[a].campaign = c /\ calls[b].campaign = c
                       /\ calls[a].op = "update_stocks"
                       /\ calls[b].op = "update_price") => a < b

-----------------------------------------------------------------------------
(* get_offer_ids against a listing whose cursor never empties               *)

\* A listing as above whose last page, instead of the empty cursor, carries
\* the token of page `back`: following the cursors never ends.
CyclicListing(counts, tot, back) ==
    [Listing(counts, tot) EXCEPT ![Len(counts)].cursor = back]

InitStuck ==
    /\ program \in {"seller.get_offer_ids", "market.get_offer_ids"}
    /\ pc = "loop" /\ error = ""
    /\ \E counts \in SeqsUpTo(0..MaxItems, MaxPages) \ {<<>>} :
         \E tot \in 0..(MaxPages * MaxItems), back \in 1..Len(counts) :
            /\ program = "market.get_offer_ids" => tot = 0
            /\ pages = CyclicListing(counts, tot, back)
    /\ page = 0 /\ product_list = <<>> /\ requests = <<>>
    /\ IdleSync /\ IdlePrice /\ IdleDivide

SpecStuck == InitStuck /\ [][NextPages]_vars

\* The answer to the k-th request carried a non-empty cursor and no item.
StuckResponse(k) ==
    LET some_prod == get_product_list(requests[k])
    IN  some_prod.items = <<>> /\ some_prod.cursor # 0

\* C11: when the listing keeps answering with a non-empty cursor and no new
\* items, get_offer_ids stops with an error: after two such answers in a row
\* it is not about to request another page.
C11_StopsWhenStuck ==
    (/\ program \in {"seller.get_offer_ids", "market.get_offer_ids"}
     /\ Len(requests) >= 2
     /\ StuckResponse(Len(requests)) /\ StuckResponse(Len(requests) - 1))
        => pc # "loop"

-----------------------------------------------------------------------------
(* upload_stocks (seller.py and market.py), run by a caller that awaits it  *)

\* Mutant: only positive quantities are kept.
seller_not_empty_positive(all) ==
    SelectSeq(all, LAMBDA stock : stock.stock > 0)

\* seller.py: list(filter(lambda stock: (stock.get("stock") != 0), stocks))
seller_not_empty(all) == SelectSeq(all, LAMBDA stock : stock.stock # 0)

\* market.py: the same filter on stock.get("items")[0].get("count")
market_not_empty(all) ==
    SelectSeq(all, LAMBDA stock : stock.items[1].count # 0)

UploadPrograms == {"seller.upload_stocks", "market.upload_stocks"}

\* Feed rows handed to upload_stocks: a quantity that counts as zero, a
\* positive one, a negative one and one that int() rejects.
UploadQuantities == {<<"1">>, <<"7">>, <<"-", "3">>, <<"x">>}
UploadRows == {row \in StockRows : row.count \in UploadQuantities}

\* watch_remnants is an argument of upload_stocks.
InitUpload ==
    /\ program \in UploadPrograms /\ pc = "get_offer_ids" /\ error = ""
    /\ watch_remnants \in SeqsUpTo(UploadRows, MaxFeed)
    /\ offer_ids = <<>> /\ known_ids = <<>>
    /\ stocks = <<>> /\ prices = <<>> /\ campaign = ""
    /\ batches = <<>> /\ calls = <<>> /\ coroutines = <<>>
    /\ not_empty = <<>>
    /\ IdlePrice /\ IdleDivide /\ IdlePages

\* upload_stocks has no try block: an exception reaches the awaiting caller.
Raise(e) == pc' = "raised" /\ error' = e

\* offer_ids = get_offer_ids(...)
UploadGetOfferIds ==
    /\ program \in UploadPrograms /\ pc = "get_offer_ids"
    /\ \/ /\ \E ids \in RunListings(program) :
                offer_ids' = ids /\ known_ids' = ids
          /\ pc' = "create_stocks"
          /\ UNCHANGED error
       \/ Raise("HTTPError") /\ UNCHANGED <<offer_ids, known_ids>>
    /\ UNCHANGED <<program, watch_remnants, stocks, prices, campaign, batches,
                   calls, coroutines, not_empty, idle>>

\* stocks = create_stocks(watch_remnants, offer_ids[, warehouse_id]) and the
\* list(divide(stocks, n)) of the for loop.
UploadCreateStocks ==
    /\ program \in UploadPrograms /\ pc = "create_stocks"
    /\ LET r == IF program = "seller.upload_stocks"
                THEN seller_create_stocks(watch_remnants, offer_ids)
                ELSE market_create_stocks(watch_remnants, offer_ids,
                                          "warehouse")
       IN  /\ offer_ids' = r.offer_ids
           /\ \/ /\ r.error # ""
                 /\ Raise(r.error)
                 /\ UNCHANGED <<stocks, batches>>
              \/ /\ r.error = ""
                 /\ stocks' = r.stocks
                 /\ batches' = divide(r.stocks, StocksLimit(program))
                 /\ pc' = "update_stocks"
                 /\ UNCHANGED error
    /\ UNCHANGED <<program, watch_remnants, known_ids, prices, campaign, calls,
                   coroutines, not_empty, idle>>

\* One iteration of: for some_stock in ...: update_stocks(some_stock, ...)
UploadUpdateStocks ==
    /\ program \in UploadPrograms /\ pc = "update_stocks" /\ batches # <<>>
    /\ calls' = Append(calls, [op |-> "update_stocks", campaign |-> campaign,
                               payload |-> Head(batches)])
    /\ \/ batches' = Tail(batches) /\ UNCHANGED <<pc, error>>
       \/ Raise("HTTPError") /\ UNCHANGED batches
    /\ UNCHANGED <<program, watch_remnants, offer_ids, known_ids, stocks,
                   prices, campaign, coroutines, not_empty, idle>>

\* not_empty = list(filter(...)); return not_empty, stocks
UploadReturn ==
    /\ program \in UploadPrograms /\ pc = "update_stocks" /\ batches = <<>>
    /\ not_empty' = IF program = "seller.upload_stocks"
                    THEN seller_not_empty(stocks)
                    ELSE market_not_empty(stocks)
    /\ pc' = "returned"
    /\ UNCHANGED <<program, error, watch_remnants, offer_ids, known_ids,
                   stocks, prices, campaign, batches, calls, coroutines, idle>>

NextUpload ==
    \/ UploadGetOfferIds \/ UploadCreateStocks \/ UploadUpdateStocks
    \/ UploadReturn

SpecUpload == InitUpload /\ [][NextUpload]_vars

UploadQuantity(e) ==
    IF program = "seller.upload_stocks" THEN e.stock ELSE e.items[1].count

\* Positions of the full list whose quantity is not zero.
NonZeroPositions == {k \in DOMAIN stocks : UploadQuantity(stocks[k]) # 0}

\* C12: upload_stocks returns, with the full list, exactly the entries of
\* that list whose quantity is non-zero, in the same relative order; every
\* entry with quantity 0 is left out.
C12_NotEmptyIsNonZeroSublist ==
    (program \in UploadPrograms /\ pc = "returned")
        => /\ Len(not_empty) = Cardinality(NonZeroPositions)
           /\ \A k \in NonZeroPositions :
                  not_empty[Cardinality({m \in NonZeroPositions : m <= k})]
                      = stocks[k]
           /\ \A j \in DOMAIN not_empty : UploadQuantity(not_empty[j]) # 0

C12_Witness ==
    /\ program \in UploadPrograms /\ pc = "returned"
    /\ known_ids = <<"A", "B", "C">>
    /\ Len(watch_remnants) = 2
    /\ watch_remnants[1].code = "A" /\ watch_remnants[1].count = <<"1">>
    /\ watch_remnants[2].code = "B" /\ watch_remnants[2].count = <<"7">>
    /\ Len(stocks) = 3 /\ not_empty = <<stocks[2]>>

(***************************************************************************)
(* Failed remote update calls in seller.main and market.main.              *)
(***************************************************************************)

\* The last remote update call of the run raised: the batch it carried is
\* still the first of the batches of the interrupted loop.
UpdateFailed ==
    /\ program \in {"seller.main", "market.main"}
    /\ error # "" /\ batches # <<>> /\ calls # <<>>
    /\ calls[Len(calls)].payload = Head(batches)

\* C13: once update_stocks or update_price has failed in a run of main, no
\* further remote update call is issued in that run: the failed batch is
\* not submitted again, and neither the batches after it nor the later
\* steps of the run (the price loop, the second campaign) are reached.
C13_NoCallAfterFailure ==
    [][UpdateFailed => (calls' = calls /\ coroutines' = coroutines)]_vars

\* A stock batch failed while another batch was still waiting behind it.
C13_Witness ==
    /\ UpdateFailed /\ Len(batches) >= 2
    /\ calls[Len(calls)].op = "update_stocks"

(***************************************************************************)
(* The stock batches of upload_stocks.                                     *)
(***************************************************************************)

\* The batches update_stocks was called with, in call order.
Submitted == Payloads(CallsOf("update_stocks", campaign))

\* The batches the stock loop has not reached yet.
Pending == IF pc = "update_stocks" THEN Concat(batches) ELSE <<>>

\* C14: while upload_stocks has met no error, the batches passed to
\* update_stocks, in call order and followed by the batches still to come,
\* concatenate to the reconciled list (so they are contiguous slices of it,
\* none overlapping, every entry submitted once), and each call carries at
\* least one and at most 100 (seller) or 2000 (market) entries.
C14_BatchesSliceStocks ==
    (program \in UploadPrograms /\ error = "")
        => /\ Concat(Submitted) \o Pending = stocks
           /\ \A k \in DOMAIN Submitted :
                  /\ Len(Submitted[k]) >= 1
                  /\ Len(Submitted[k]) <= StocksLimit(program)

\* upload_stocks has submitted a list longer than the limit, in two calls,
\* the first one full.
C14_Witness ==
    /\ program \in UploadPrograms /\ error = ""
    /\ pc = "update_stocks" /\ batches = <<>>
    /\ Len(stocks) > StocksLimit(program)
    /\ Len(Submitted) = 2
    /\ Len(Submitted[1]) = StocksLimit(program)

=============================================================================
